---- MODULE Spec2Model ----
(***************************************************************************)
(* Credential reconciliation (EnsureSecrets and the ensure operations it   *)
(* calls), the arangod client factory and the backup download-error        *)
(* handler of kube-arangodb, as state machines over a shared secret store. *)
(*                                                                         *)
(* One step of a reconciler is one call on the secret store (Get, Create,  *)
(* Delete) together with the local computation that follows it up to the   *)
(* next store call: the store is the only state reconcilers share.         *)
(***************************************************************************)
EXTENDS Integers, Sequences, FiniteSets, TLC

VARIABLES
    spec,      \* the desired spec: the toggles EnsureSecrets reads
    store,     \* the secret store of the namespace: a set of secrets
    pc,        \* per reconciler: the store call it is about to make
    idx,       \* per reconciler: position in the pass's sequence of ensure calls
    pass,      \* per reconciler: number of EnsureSecrets passes started
    ret,       \* per reconciler: result of its last finished pass
    loc,       \* per reconciler: locals of the running ensure operation
    op,        \* per reconciler: the ensure operation it entered last: its store
               \* calls in order and what it returned
    faults,    \* number of store failures (errors other than NotFound/AlreadyExists) so far
    cl,        \* the client factory: its last call, arguments and results
    transports,\* the process-wide transports (package variables of client.go)
    backup,    \* the stored status of one backup: state, transition time, message
    now,       \* the clock (time.Now), in seconds
    hcall      \* the last call of the backup's state handler: the status it was
               \* given, the time it ran at, the status it returned

vars == <<spec, store, pc, idx, pass, ret, loc, op, faults, cl, transports, backup, now, hcall>>

bkVars == <<backup, now, hcall>>

(***************************************************************************)
(* Bounds                                                                  *)
(***************************************************************************)
MaxPasses == 2     \* EnsureSecrets passes started, over all reconcilers
MaxAgents == 2     \* agent members in the deployment status

Procs == {"r1", "r2"}

(***************************************************************************)
(* Names of the secrets of one deployment and of their data fields         *)
(***************************************************************************)
JWTSecretName          == "jwt"            \* spec.Authentication.GetJWTSecretName()
ExporterTokenName      == "exporter-jwt"   \* spec.Metrics.GetJWTTokenSecretName()
TLSCASecretName        == "ca"             \* spec.TLS.GetCASecretName()
KeyfileSecretName      == "keyfile"        \* spec.RocksDB.Encryption.GetKeySecretName()
KeyfolderSecretName    == "keyfolder"      \* pod.GetKeyfolderSecretName(deploymentName)
SyncJWTSecretName      == "sync-jwt"       \* spec.Sync.Authentication.GetJWTSecretName()
SyncMonitoringName     == "sync-mon"       \* spec.Sync.Monitoring.GetTokenSecretName()
SyncTLSCASecretName    == "sync-ca"        \* spec.Sync.TLS.GetCASecretName()
ClientCASecretName     == "sync-client-ca" \* spec.Sync.Authentication.GetClientCASecretName()

SecretKeyToken      == "token"
SecretEncryptionKey == "key"
SecretCACertificate == "ca.crt"
SecretCAKey         == "ca.key"

ArangoExporterInternalEndpoint == "/_admin/metrics"

(***************************************************************************)
(* Values of data fields.  Every value has the same shape: fmt says what   *)
(* the bytes are, n identifies them (for a JWT: the key that signed it),   *)
(* claims is the JSON payload of a JWT.                                    *)
(***************************************************************************)
NoClaims == [iss |-> "", server_id |-> "", allowed_paths |-> <<>>]

HexToken(n) == [fmt |-> "hex", n |-> n, claims |-> NoClaims]
KeyBytes(n) == [fmt |-> "bytes", n |-> n, claims |-> NoClaims]
PEM(n)      == [fmt |-> "pem", n |-> n, claims |-> NoClaims]
SignedJWT(key, json) == [fmt |-> "jwt", n |-> key, claims |-> json]

\* A secret: name, the uid the store gave it when it was created (0 for the
\* secrets that were there before the first pass), whether it carries the
\* owner reference of the deployment, data.
Secret(name, owner, data) == [name |-> name, uid |-> 0, owner |-> owner, data |-> data]

\* Faulty variant: no owner reference is handed to the create helpers.
AsOwner_Nil == FALSE

\* owner := r.context.GetAPIObject().AsOwner(), handed on as &owner: the
\* secret to create is to carry the owner reference of the deployment.
AsOwner == TRUE

Named(st, name) == {s \in st : s.name = name}
Has(st, name)   == Named(st, name) # {}
TheSecret(st, name) == CHOOSE s \in Named(st, name) : TRUE
\* data is a set of fields (key, value); at most one field per key.
Field(k, v)     == [k |-> k, v |-> v]
HasField(s, k)  == \E f \in s.data : f.k = k
FieldOf(s, k)   == (CHOOSE f \in s.data : f.k = k).v

\* rand.Read: the bytes a call generates are its own (no two calls agree).
ProcNum(p) == IF p = "r1" THEN 1 ELSE 2
Fresh(p) == 10 * ProcNum(p) + pass[p]

(***************************************************************************)
(* The store adapter: get / create / delete, each of which may fail.  A    *)
(* failure ends the pass (every caller returns the error), so passes bound *)
(* the number of failures.                                                 *)
(***************************************************************************)
FaultChoices == BOOLEAN

GetResult(st, name, f) ==
    IF f THEN "error" ELSE IF Has(st, name) THEN "ok" ELSE "notfound"

CreateResult(st, name, f) ==
    IF f THEN "error" ELSE IF Has(st, name) THEN "exists" ELSE "ok"

DeleteResult(st, name, f) ==
    IF f THEN "error" ELSE IF Has(st, name) THEN "ok" ELSE "notfound"

StoreAfterCreate(st, s, uid, r) ==
    IF r = "ok" THEN st \cup {[s EXCEPT !.uid = uid]} ELSE st
StoreAfterDelete(st, name, r) == IF r = "ok" THEN st \ Named(st, name) ELSE st

Call(kind, name, r) == [op |-> kind, name |-> name, res |-> r]

(***************************************************************************)
(* EnsureSecrets: the ensure calls of one pass, in order, for a spec.      *)
(***************************************************************************)
Step(fn, name) == [fn |-> fn, name |-> name]

\* Faulty variant: the exporter token is ensured before the primary token.
EnsureSecretsSteps_ExporterFirst(s) ==
    (IF s.auth
        THEN (IF s.metrics
                 THEN <<Step("ensureExporterTokenSecret", ExporterTokenName)>>
                 ELSE <<>>)
             \o <<Step("ensureTokenSecret", JWTSecretName)>>
        ELSE <<>>)
    \o (IF s.tls THEN <<Step("ensureTLSCACertificateSecret", TLSCASecretName)>> ELSE <<>>)
    \o (IF s.enc THEN <<Step("ensureEncryptionKeyfolderSecret", KeyfolderSecretName)>> ELSE <<>>)
    \o (IF s.sync
           THEN <<Step("ensureTokenSecret", SyncJWTSecretName),
                  Step("ensureTokenSecret", SyncMonitoringName),
                  Step("ensureTLSCACertificateSecret", SyncTLSCASecretName),
                  Step("ensureClientAuthCACertificateSecret", ClientCASecretName)>>
           ELSE <<>>)

\* Faulty variant: the sync block leaves out the client-auth CA.
EnsureSecretsSteps_NoClientCA(s) ==
    (IF s.auth
        THEN <<Step("ensureTokenSecret", JWTSecretName)>>
             \o (IF s.metrics
                    THEN <<Step("ensureExporterTokenSecret", ExporterTokenName)>>
                    ELSE <<>>)
        ELSE <<>>)
    \o (IF s.tls THEN <<Step("ensureTLSCACertificateSecret", TLSCASecretName)>> ELSE <<>>)
    \o (IF s.enc THEN <<Step("ensureEncryptionKeyfolderSecret", KeyfolderSecretName)>> ELSE <<>>)
    \o (IF s.sync
           THEN <<Step("ensureTokenSecret", SyncJWTSecretName),
                  Step("ensureTokenSecret", SyncMonitoringName),
                  Step("ensureTLSCACertificateSecret", SyncTLSCASecretName)>>
           ELSE <<>>)

EnsureSecretsSteps(s) ==
    (IF s.auth
        THEN <<Step("ensureTokenSecret", JWTSecretName)>>
             \o (IF s.metrics
                    THEN <<Step("ensureExporterTokenSecret", ExporterTokenName)>>
                    ELSE <<>>)
        ELSE <<>>)
    \o (IF s.tls THEN <<Step("ensureTLSCACertificateSecret", TLSCASecretName)>> ELSE <<>>)
    \o (IF s.enc THEN <<Step("ensureEncryptionKeyfolderSecret", KeyfolderSecretName)>> ELSE <<>>)
    \o (IF s.sync
           THEN <<Step("ensureTokenSecret", SyncJWTSecretName),
                  Step("ensureTokenSecret", SyncMonitoringName),
                  Step("ensureTLSCACertificateSecret", SyncTLSCASecretName),
                  Step("ensureClientAuthCACertificateSecret", ClientCASecretName)>>
           ELSE <<>>)

Steps == EnsureSecretsSteps(spec)
Cur(p) == Steps[idx[p]]

NoValue == [fmt |-> "none", n |-> 0, claims |-> NoClaims]
NoLoc == [get |-> "none", hasToken |-> FALSE, data |-> NoValue, key |-> "none",
          secret |-> 0, recreate |-> FALSE, exists |-> FALSE, err |-> "none",
          d |-> NoValue]

TotalPasses == pass["r1"] + pass["r2"]

\* What a reconciler does after a store call: "step" goes on inside the same
\* ensure operation (at nextpc), "nil" returns nil from the ensure operation
\* (EnsureSecrets goes on with its next call, or returns nil after the last),
\* "err" returns the error from the ensure operation and from EnsureSecrets.
NoOp == [fn |-> "none", name |-> "none", out |-> "none", calls |-> <<>>]

\* The record of the ensure operation after call c: the first call of an
\* ensure operation opens a new record.
Record(p, c, out) ==
    [fn |-> Cur(p).fn, name |-> Cur(p).name,
     out |-> IF out = "step" THEN "running" ELSE out,
     calls |-> IF pc[p] = Cur(p).fn THEN <<c>> ELSE Append(op[p].calls, c)]

\* Faulty variant: EnsureSecrets notes the error of an ensure operation and
\* goes on with the next one.
Continue_GoesOnAfterError(p, out, nextpc) ==
    /\ pc' = [pc EXCEPT ![p] =
                CASE out = "step" -> nextpc
                  [] OTHER        -> IF idx[p] < Len(Steps)
                                        THEN Steps[idx[p] + 1].fn ELSE "idle"]
    /\ idx' = [idx EXCEPT ![p] =
                IF out \in {"nil", "err"} /\ idx[p] < Len(Steps) THEN idx[p] + 1 ELSE @]
    /\ ret' = [ret EXCEPT ![p] =
                CASE out = "err" -> "err"
                  [] out = "nil" /\ idx[p] = Len(Steps) /\ ret[p] # "err" -> "ok"
                  [] OTHER -> @]

Continue(p, out, nextpc) ==
    /\ pc' = [pc EXCEPT ![p] =
                CASE out = "step" -> nextpc
                  [] out = "err"  -> "idle"
                  [] OTHER        -> IF idx[p] < Len(Steps)
                                        THEN Steps[idx[p] + 1].fn ELSE "idle"]
    /\ idx' = [idx EXCEPT ![p] =
                IF out = "nil" /\ idx[p] < Len(Steps) THEN idx[p] + 1 ELSE @]
    /\ ret' = [ret EXCEPT ![p] =
                CASE out = "err" -> "err"
                  [] out = "nil" /\ idx[p] = Len(Steps) -> "ok"
                  [] OTHER -> @]

EnsureSecrets(p) ==
    /\ pc[p] = "idle"
    /\ TotalPasses < MaxPasses
    /\ p = "r2" => pass["r1"] >= 1
    /\ pass' = [pass EXCEPT ![p] = @ + 1]
    /\ op' = [op EXCEPT ![p] = NoOp]
    /\ loc' = [loc EXCEPT ![p] = NoLoc]
    /\ idx' = [idx EXCEPT ![p] = IF Len(Steps) > 0 THEN 1 ELSE 0]
    /\ pc' = [pc EXCEPT ![p] = IF Len(Steps) > 0 THEN Steps[1].fn ELSE "idle"]
    /\ ret' = [ret EXCEPT ![p] = IF Len(Steps) > 0 THEN "running" ELSE "ok"]
    /\ UNCHANGED <<spec, store, faults, cl, transports, bkVars>>

(***************************************************************************)
(* The read-then-create flow of tokens and CA certificates.                *)
(***************************************************************************)
\* One Get on the store and what the ensure operation does with its result.
GetThen(p, name, f, out, nextpc) ==
    LET r == GetResult(store, name, f) IN
    /\ op' = [op EXCEPT ![p] = Record(p, Call("get", name, r), out)]
    /\ faults' = IF f THEN faults + 1 ELSE faults
    /\ Continue(p, out, nextpc)
    /\ UNCHANGED <<spec, store, pass, cl, transports, bkVars>>

\* One Create on the store and what the ensure operation does with its result.
CreateThen(p, s, f, out) ==
    LET r == CreateResult(store, s.name, f) IN
    /\ store' = StoreAfterCreate(store, s, Fresh(p), r)
    /\ op' = [op EXCEPT ![p] = Record(p, Call("create", s.name, r), out)]
    /\ faults' = IF f THEN faults + 1 ELSE faults
    /\ Continue(p, out, "idle")
    /\ UNCHANGED <<spec, pass, cl, transports, bkVars>>

ensureTokenSecret_onGet(r) ==
    IF r = "notfound" THEN "step" ELSE IF r # "ok" THEN "err" ELSE "nil"

\* Faulty variant: the AlreadyExists check of the create is left out.
ensureTokenSecret_onCreate_NoExistsCheck(r) ==
    IF r # "ok" THEN "err" ELSE "nil"

\* Faulty variant: a failed create is taken for a success.
ensureTokenSecret_onCreate_ErrorSwallowed(r) ==
    "nil"

ensureTokenSecret_onCreate(r) ==
    IF r = "exists" THEN "nil" ELSE IF r # "ok" THEN "err" ELSE "nil"

\* k8sutil.CreateTokenSecret: the secret it asks the store to create.
CreateTokenSecret(name, token, owner) ==
    Secret(name, owner, {Field(SecretKeyToken, HexToken(token))})

ensureTokenSecret_Get(p) ==
    /\ pc[p] = "ensureTokenSecret"
    /\ \E f \in FaultChoices :
         GetThen(p, Cur(p).name, f,
                 ensureTokenSecret_onGet(GetResult(store, Cur(p).name, f)),
                 "CreateTokenSecret")
    /\ loc' = [loc EXCEPT ![p] = NoLoc]

ensureTokenSecret_Create(p) ==
    /\ pc[p] = "CreateTokenSecret"
    /\ \E f \in FaultChoices :
         CreateThen(p, CreateTokenSecret(Cur(p).name, Fresh(p), AsOwner), f,
                    ensureTokenSecret_onCreate(CreateResult(store, Cur(p).name, f)))
    /\ UNCHANGED loc

\* Faulty variant: any failed read leads to the create.
ensureTLSCACertificateSecret_onGet_ErrorCreates(r) ==
    IF r # "ok" THEN "step" ELSE "nil"

ensureTLSCACertificateSecret_onGet(r) ==
    IF r = "notfound" THEN "step" ELSE IF r # "ok" THEN "err" ELSE "nil"

ensureTLSCACertificateSecret_onCreate(r) ==
    IF r = "exists" THEN "nil" ELSE IF r # "ok" THEN "err" ELSE "nil"

\* createTLSCACertificate / createClientAuthCACertificate: the secret created.
CreateCASecret(name, n, owner) ==
    Secret(name, owner, {Field(SecretCACertificate, PEM(n)), Field(SecretCAKey, PEM(n))})

ensureTLSCACertificateSecret_Get(p) ==
    /\ pc[p] = "ensureTLSCACertificateSecret"
    /\ \E f \in FaultChoices :
         GetThen(p, Cur(p).name, f,
                 ensureTLSCACertificateSecret_onGet(GetResult(store, Cur(p).name, f)),
                 "createTLSCACertificate")
    /\ loc' = [loc EXCEPT ![p] = NoLoc]

ensureTLSCACertificateSecret_Create(p) ==
    /\ pc[p] = "createTLSCACertificate"
    /\ \E f \in FaultChoices :
         CreateThen(p, CreateCASecret(Cur(p).name, Fresh(p), AsOwner), f,
                    ensureTLSCACertificateSecret_onCreate(CreateResult(store, Cur(p).name, f)))
    /\ UNCHANGED loc

ensureClientAuthCACertificateSecret_onGet(r) ==
    IF r = "notfound" THEN "step" ELSE IF r # "ok" THEN "err" ELSE "nil"

\* Faulty variant: AlreadyExists from the create is returned as an error.
ensureClientAuthCACertificateSecret_onCreate_ExistsFatal(r) ==
    IF r # "ok" THEN "err" ELSE "nil"

ensureClientAuthCACertificateSecret_onCreate(r) ==
    IF r = "exists" THEN "nil" ELSE IF r # "ok" THEN "err" ELSE "nil"

ensureClientAuthCACertificateSecret_Get(p) ==
    /\ pc[p] = "ensureClientAuthCACertificateSecret"
    /\ \E f \in FaultChoices :
         GetThen(p, Cur(p).name, f,
                 ensureClientAuthCACertificateSecret_onGet(GetResult(store, Cur(p).name, f)),
                 "createClientAuthCACertificate")
    /\ loc' = [loc EXCEPT ![p] = NoLoc]

ensureClientAuthCACertificateSecret_Create(p) ==
    /\ pc[p] = "createClientAuthCACertificate"
    /\ \E f \in FaultChoices :
         CreateThen(p, CreateCASecret(Cur(p).name, Fresh(p), AsOwner), f,
                    ensureClientAuthCACertificateSecret_onCreate(CreateResult(store, Cur(p).name, f)))
    /\ UNCHANGED loc

(***************************************************************************)
(* Claims of the exporter token.  A Go value carries its dynamic type:     *)
(* the desired claims are a map[string]interface{} holding a []string,     *)
(* the claims jwt-go decodes from a token are a jwt.MapClaims holding a    *)
(* []interface{} (encoding/json decodes every array to []interface{}).     *)
(***************************************************************************)
GoClaims(type, iss, server_id, pathsType, paths) ==
    [type |-> type, iss |-> iss, server_id |-> server_id,
     allowed_paths |-> [type |-> pathsType, elems |-> paths]]

AllowedPaths ==
    <<"/_admin/statistics", "/_admin/statistics-description", ArangoExporterInternalEndpoint>>

exporterTokenClaims ==
    GoClaims("map[string]interface{}", "arangodb", "exporter", "[]string", AllowedPaths)

\* The JSON payload jwt-go writes for a claims map (SignedString).
EncodeClaims(c) ==
    [iss |-> c.iss, server_id |-> c.server_id, allowed_paths |-> c.allowed_paths.elems]

\* The claims jwt-go reads back from a JSON payload (Parse, into MapClaims).
DecodeClaims(json) ==
    GoClaims("jwt.MapClaims", json.iss, json.server_id, "[]interface{}", json.allowed_paths)

\* jg.Parse: data is a JWT and its signature verifies with the key.
ParseOK(data, key) == data.fmt = "jwt" /\ data.n = key

\* equality.Semantic.DeepEqual: false for values of different types, at
\* the top and inside interface values; else element by element.
SemanticDeepEqual(a, b) ==
    /\ a.type = b.type
    /\ a.iss = b.iss
    /\ a.server_id = b.server_id
    /\ a.allowed_paths.type = b.allowed_paths.type
    /\ a.allowed_paths.elems = b.allowed_paths.elems

Required(recreate, exists, err) == [recreate |-> recreate, exists |-> exists, err |-> err]

\* Faulty variant: a secret without token field is reported like a missing secret.
ensureExporterTokenSecretCreateRequired_NoFieldAsMissing(getRes, hasToken, data, keyRes, secret) ==
    IF getRes = "notfound" THEN Required(TRUE, FALSE, "nil")
    ELSE IF getRes = "ok" THEN
        IF ~hasToken THEN Required(TRUE, FALSE, "nil")
        ELSE IF keyRes # "ok" THEN Required(FALSE, TRUE, "err")
        ELSE IF ~ParseOK(data, secret) THEN Required(TRUE, TRUE, "nil")
        ELSE Required(~SemanticDeepEqual(DecodeClaims(data.claims), exporterTokenClaims),
                      TRUE, "nil")
    ELSE Required(FALSE, FALSE, "err")

\* Faulty variant: an unreadable signing key is taken as a reason to recreate.
ensureExporterTokenSecretCreateRequired_KeyErrorRecreates(getRes, hasToken, data, keyRes, secret) ==
    IF getRes = "notfound" THEN Required(TRUE, FALSE, "nil")
    ELSE IF getRes = "ok" THEN
        IF ~hasToken THEN Required(TRUE, TRUE, "nil")
        ELSE IF keyRes # "ok" THEN Required(TRUE, TRUE, "nil")
        ELSE IF ~ParseOK(data, secret) THEN Required(TRUE, TRUE, "nil")
        ELSE Required(~SemanticDeepEqual(DecodeClaims(data.claims), exporterTokenClaims),
                      TRUE, "nil")
    ELSE Required(FALSE, FALSE, "err")

\* The validator, as a function of what its reads return: getRes is the result
\* of the Get of the token secret, hasToken whether that secret has the token
\* field, data the field's value, keyRes the result of GetTokenSecret on the
\* signing-key secret and secret the key it returns.
ensureExporterTokenSecretCreateRequired(getRes, hasToken, data, keyRes, secret) ==
    IF getRes = "notfound" THEN Required(TRUE, FALSE, "nil")
    ELSE IF getRes = "ok" THEN
        IF ~hasToken THEN Required(TRUE, TRUE, "nil")
        ELSE IF keyRes # "ok" THEN Required(FALSE, TRUE, "err")
        ELSE IF ~ParseOK(data, secret) THEN Required(TRUE, TRUE, "nil")
        ELSE Required(~SemanticDeepEqual(DecodeClaims(data.claims), exporterTokenClaims),
                      TRUE, "nil")
    ELSE Required(FALSE, FALSE, "err")

\* ensureExporterTokenSecret after the validator returned v: where it goes.
ensureExporterTokenSecret_onRequired(v) ==
    IF v.err # "nil" THEN [out |-> "err", to |-> "idle"]
    ELSE IF v.recreate
        THEN IF v.exists THEN [out |-> "step", to |-> "Delete"]
                         ELSE [out |-> "step", to |-> "CreateJWTFromSecret"]
        ELSE [out |-> "nil", to |-> "idle"]

\* Faulty variant: a NotFound answer to the delete is not tolerated.
ensureExporterTokenSecret_onDelete_NotFoundFatal(r) ==
    IF r # "ok" THEN "err" ELSE "step"

ensureExporterTokenSecret_onDelete(r) ==
    IF r # "ok" /\ r # "notfound" THEN "err" ELSE "step"

\* Faulty variant: AlreadyExists from the create flow is returned as an error.
ensureExporterTokenSecret_onCreate_ExistsFatal(r) ==
    IF r # "ok" THEN "err" ELSE "nil"

ensureExporterTokenSecret_onCreate(r) ==
    IF r = "exists" THEN "nil" ELSE IF r # "ok" THEN "err" ELSE "nil"

\* k8sutil.GetTokenSecret: the Get, then the token field of the secret.
GetTokenSecretResult(st, name, f) ==
    LET g == GetResult(st, name, f) IN
    IF g # "ok" THEN g
    ELSE IF ~HasField(TheSecret(st, name), SecretKeyToken) THEN "nofield" ELSE "ok"

GetTokenSecretValue(st, name) == FieldOf(TheSecret(st, name), SecretKeyToken).n

\* The Get of the token secret (lines 188-195).
ensureExporterTokenSecretCreateRequired_Get(p) ==
    /\ pc[p] = "ensureExporterTokenSecret"
    /\ \E f \in FaultChoices :
        LET name == Cur(p).name
            r == GetResult(store, name, f)
            has == r = "ok" /\ HasField(TheSecret(store, name), SecretKeyToken)
            data == IF has THEN FieldOf(TheSecret(store, name), SecretKeyToken) ELSE NoValue
            v == ensureExporterTokenSecretCreateRequired(r, has, data, "none", 0)
            go == ensureExporterTokenSecret_onRequired(v)
        IN IF has
             THEN /\ loc' = [loc EXCEPT ![p] = [NoLoc EXCEPT !.get = r, !.hasToken = TRUE,
                                                             !.data = data]]
                  /\ GetThen(p, name, f, "step", "GetTokenSecret")
             ELSE /\ loc' = [loc EXCEPT ![p] = [NoLoc EXCEPT !.get = r,
                                   !.recreate = v.recreate, !.exists = v.exists,
                                   !.err = v.err]]
                  /\ GetThen(p, name, f, go.out, go.to)

\* The read of the signing key, the parse and the comparison (lines 197-215).
ensureExporterTokenSecretCreateRequired_GetTokenSecret(p) ==
    /\ pc[p] = "GetTokenSecret"
    /\ \E f \in FaultChoices :
        LET k == GetTokenSecretResult(store, JWTSecretName, f)
            secret == IF k = "ok" THEN GetTokenSecretValue(store, JWTSecretName) ELSE 0
            v == ensureExporterTokenSecretCreateRequired("ok", TRUE, loc[p].data, k, secret)
            go == ensureExporterTokenSecret_onRequired(v)
        IN /\ loc' = [loc EXCEPT ![p] = [@ EXCEPT !.key = k, !.secret = secret,
                                   !.recreate = v.recreate, !.exists = v.exists,
                                   !.err = v.err]]
           /\ GetThen(p, JWTSecretName, f, go.out, go.to)

\* Faulty variant: the delete is aimed at the secret of the signing key.
ensureExporterTokenSecret_DeleteName_SigningKey(tokenSecretName, secretSecretName) ==
    secretSecretName

\* The name handed to secrets.Delete (line 170).
ensureExporterTokenSecret_DeleteName(tokenSecretName, secretSecretName) ==
    tokenSecretName

\* secrets.Delete of the old token secret (lines 169-173).
ensureExporterTokenSecret_Delete(p) ==
    /\ pc[p] = "Delete"
    /\ \E f \in FaultChoices :
        LET name == ensureExporterTokenSecret_DeleteName(Cur(p).name, JWTSecretName)
            r == DeleteResult(store, name, f)
        IN /\ store' = StoreAfterDelete(store, name, r)
           /\ op' = [op EXCEPT ![p] = Record(p, Call("delete", name, r),
                                              ensureExporterTokenSecret_onDelete(r))]
           /\ faults' = IF f THEN faults + 1 ELSE faults
           /\ Continue(p, ensureExporterTokenSecret_onDelete(r), "CreateJWTFromSecret")
    /\ UNCHANGED <<spec, pass, loc, cl, transports, bkVars>>

\* k8sutil.CreateJWTFromSecret, first half: it reads the signing key.
CreateJWTFromSecret_GetTokenSecret(p) ==
    /\ pc[p] = "CreateJWTFromSecret"
    /\ \E f \in FaultChoices :
        LET k == GetTokenSecretResult(store, JWTSecretName, f)
            secret == IF k = "ok" THEN GetTokenSecretValue(store, JWTSecretName) ELSE 0
        IN /\ loc' = [loc EXCEPT ![p] = [@ EXCEPT !.secret = secret]]
           /\ GetThen(p, JWTSecretName, f,
                      IF k = "ok" THEN "step" ELSE ensureExporterTokenSecret_onCreate(k),
                      "CreateJWTFromSecret_Create")

\* k8sutil.CreateJWTFromSecret, second half: the secret it creates is the
\* claims signed with the key.
CreateJWTSecret(name, key, claims, owner) ==
    Secret(name, owner, {Field(SecretKeyToken, SignedJWT(key, EncodeClaims(claims)))})

CreateJWTFromSecret_Create(p) ==
    /\ pc[p] = "CreateJWTFromSecret_Create"
    /\ \E f \in FaultChoices :
         CreateThen(p, CreateJWTSecret(Cur(p).name, loc[p].secret, exporterTokenClaims, AsOwner), f,
                    ensureExporterTokenSecret_onCreate(CreateResult(store, Cur(p).name, f)))
    /\ UNCHANGED loc

(***************************************************************************)
(* The encryption keyfolder                                                *)
(***************************************************************************)
\* d, ok := keyfile.Data[key]: a Go map yields the zero value for a missing key.
Lookup(data, k) ==
    IF \E f \in data : f.k = k THEN (CHOOSE f \in data : f.k = k).v ELSE NoValue

\* Faulty variant: the keyfile's data is not checked.
ensureEncryptionKeyfolderSecret_onGet_Unchecked(r, data) ==
    IF r # "ok" THEN "err" ELSE "step"

\* Lines 133-145: r is the result of the Get of the keyfile secret, data its data.
ensureEncryptionKeyfolderSecret_onGet(r, data) ==
    IF r # "ok" THEN "err"
    ELSE IF Cardinality(data) = 0 THEN "err"
    ELSE IF ~(\E f \in data : f.k = SecretEncryptionKey) THEN "err"
    ELSE "step"

\* Lines 148-151: e is what AppendKeyfileToKeyfolder returns.
ensureEncryptionKeyfolderSecret_onAppend(e) ==
    IF e # "nil" THEN "err" ELSE "nil"

ensureEncryptionKeyfolderSecret_Get(p) ==
    /\ pc[p] = "ensureEncryptionKeyfolderSecret"
    /\ \E f \in FaultChoices :
        LET r == GetResult(store, KeyfileSecretName, f)
            data == IF r = "ok" THEN TheSecret(store, KeyfileSecretName).data ELSE {}
            out == ensureEncryptionKeyfolderSecret_onGet(r, data)
        IN /\ loc' = [loc EXCEPT ![p] = [NoLoc EXCEPT !.get = r,
                        !.d = Lookup(data, SecretEncryptionKey)]]
           /\ GetThen(p, KeyfileSecretName, f, out, "AppendKeyfileToKeyfolder")

\* k8sutil.AppendKeyfileToKeyfolder: read by name, create if not found.
AppendKeyfileToKeyfolder_onGet(r) ==
    IF r = "notfound" THEN "create" ELSE IF r # "ok" THEN "err" ELSE "nil"

AppendKeyfileToKeyfolder_onCreate(r) ==
    IF r = "exists" THEN "nil" ELSE IF r # "ok" THEN "err" ELSE "nil"

CreateKeyfolderSecret(name, d, owner) ==
    Secret(name, owner, {Field(SecretEncryptionKey, d)})

AppendKeyfileToKeyfolder_Get(p) ==
    /\ pc[p] = "AppendKeyfileToKeyfolder"
    /\ \E f \in FaultChoices :
        LET e == AppendKeyfileToKeyfolder_onGet(GetResult(store, Cur(p).name, f)) IN
        GetThen(p, Cur(p).name, f,
                IF e = "create" THEN "step" ELSE ensureEncryptionKeyfolderSecret_onAppend(e),
                "AppendKeyfileToKeyfolder_Create")
    /\ UNCHANGED loc

AppendKeyfileToKeyfolder_Create(p) ==
    /\ pc[p] = "AppendKeyfileToKeyfolder_Create"
    /\ \E f \in FaultChoices :
         CreateThen(p, CreateKeyfolderSecret(Cur(p).name, loc[p].d, AsOwner), f,
                    ensureEncryptionKeyfolderSecret_onAppend(
                        AppendKeyfileToKeyfolder_onCreate(CreateResult(store, Cur(p).name, f))))
    /\ UNCHANGED loc

(***************************************************************************)
(* The client factory (pkg/util/arangod/client.go)                         *)
(***************************************************************************)
ArangoPort == "8529"    \* strconv.Itoa(k8sutil.ArangoPort)

Context == [skip : BOOLEAN, require : BOOLEAN]   \* the two context markers

\* k8sutil.CreatePodDNSName / CreateDatabaseClientServiceDNSName
CreatePodDNSName(role, id) == [role |-> role, id |-> id]
CreateDatabaseClientServiceDNSName == [role |-> "service", id |-> 0]

\* scheme + "://" + net.JoinHostPort(dnsName, port)
Endpoint(scheme, dnsName) == [scheme |-> scheme, host |-> dnsName, port |-> ArangoPort]

\* A transport: what the four literals of lines 63-114 differ in and the pool
\* limits they share (durations in milliseconds).
Transport(keepAlive, idleConnTimeout, tlsClientConfig) ==
    [Timeout |-> 30000, KeepAlive |-> keepAlive, MaxIdleConns |-> 100,
     IdleConnTimeout |-> idleConnTimeout, TLSHandshakeTimeout |-> 10000,
     ExpectContinueTimeout |-> 1000, TLSClientConfig |-> tlsClientConfig]

\* The package variables as the var block leaves them.  A *nhttp.Transport is
\* a reference: a connection config names the transport it shares.
SharedTransports ==
    [sharedHTTPTransport              |-> Transport(90000, 90000, "none"),
     sharedHTTPSTransport             |-> Transport(90000, 90000, "InsecureSkipVerify"),
     sharedHTTPTransportShortTimeout  |-> Transport(100, 100, "none"),
     sharedHTTPSTransportShortTimeout |-> Transport(100, 100, "InsecureSkipVerify")]

\* Faulty variant: the short-timeout request is lost when TLS is chosen.
createArangodHTTPConfigForDNSNames_TLSDropsShortTimeout(api, s, dnsNames, shortTimeout) ==
    LET secure == api /\ s.tls
        scheme == IF secure THEN "https" ELSE "http"
        transport ==
            IF secure
               THEN "sharedHTTPSTransport"
               ELSE (IF shortTimeout THEN "sharedHTTPTransportShortTimeout"
                                     ELSE "sharedHTTPTransport")
    IN [Transport |-> transport, DontFollowRedirect |-> TRUE,
        Endpoints |-> [i \in 1..Len(dnsNames) |-> Endpoint(scheme, dnsNames[i])]]

\* api: the API object is not nil; s: its spec.
createArangodHTTPConfigForDNSNames(api, s, dnsNames, shortTimeout) ==
    LET secure == api /\ s.tls
        scheme == IF secure THEN "https" ELSE "http"
        transport ==
            IF secure
               THEN (IF shortTimeout THEN "sharedHTTPSTransportShortTimeout"
                                     ELSE "sharedHTTPSTransport")
               ELSE (IF shortTimeout THEN "sharedHTTPTransportShortTimeout"
                                     ELSE "sharedHTTPTransport")
    IN [Transport |-> transport, DontFollowRedirect |-> TRUE,
        Endpoints |-> [i \in 1..Len(dnsNames) |-> Endpoint(scheme, dnsNames[i])]]

NoAuth == [type |-> "nil", key |-> 0, server_id |-> ""]
\* driver.RawAuthentication(jwt.CreateArangodJwtAuthorizationHeader(s, "kube-arangodb"))
RawAuthentication(secret) == [type |-> "raw", key |-> secret, server_id |-> "kube-arangodb"]

AuthResult(auth, err, reads) == [auth |-> auth, err |-> err, reads |-> reads]

\* What the read of the primary token and the signing of the header may fail at.
AuthFailures == {"none", "read", "sign"}

\* Faulty variant: the skip marker silences the require marker.
createArangodClientAuthentication_SkipSilencesRequire(ctx, api, s, st, f) ==
    IF api /\ s.auth
    THEN IF ~ctx.skip
         THEN IF GetTokenSecretResult(st, JWTSecretName, f = "read") # "ok"
              THEN AuthResult(NoAuth, "secret", 1)
              ELSE IF f = "sign"
              THEN AuthResult(NoAuth, "jwt", 1)
              ELSE AuthResult(RawAuthentication(GetTokenSecretValue(st, JWTSecretName)), "nil", 1)
         ELSE AuthResult(NoAuth, "nil", 0)
    ELSE IF ctx.require /\ ~ctx.skip
         THEN AuthResult(NoAuth, "required", 0)
         ELSE AuthResult(NoAuth, "nil", 0)

\* Faulty variant: a failed read of the token secret yields no credential and
\* no error.
createArangodClientAuthentication_ReadFailureIgnored(ctx, api, s, st, f) ==
    IF api /\ s.auth
    THEN IF ~ctx.skip
         THEN IF GetTokenSecretResult(st, JWTSecretName, f = "read") # "ok"
              THEN AuthResult(NoAuth, "nil", 1)
              ELSE IF f = "sign"
              THEN AuthResult(NoAuth, "jwt", 1)
              ELSE AuthResult(RawAuthentication(GetTokenSecretValue(st, JWTSecretName)), "nil", 1)
         ELSE AuthResult(NoAuth, "nil", 0)
    ELSE IF ctx.require
         THEN AuthResult(NoAuth, "required", 0)
         ELSE AuthResult(NoAuth, "nil", 0)

\* The authentication, the error and the number of reads of the store; f: what
\* fails (the store's read, jwt.CreateArangodJwtAuthorizationHeader, nothing).
createArangodClientAuthentication(ctx, api, s, st, f) ==
    IF api /\ s.auth
    THEN IF ~ctx.skip
         THEN IF GetTokenSecretResult(st, JWTSecretName, f = "read") # "ok"
              THEN AuthResult(NoAuth, "secret", 1)
              ELSE IF f = "sign"
              THEN AuthResult(NoAuth, "jwt", 1)
              ELSE AuthResult(RawAuthentication(GetTokenSecretValue(st, JWTSecretName)), "nil", 1)
         ELSE AuthResult(NoAuth, "nil", 0)
    ELSE IF ctx.require
         THEN AuthResult(NoAuth, "required", 0)
         ELSE AuthResult(NoAuth, "nil", 0)

NoConfig == [Transport |-> "none", DontFollowRedirect |-> FALSE, Endpoints |-> <<>>]
NoCall == [fn |-> "none", ctx |-> [skip |-> FALSE, require |-> FALSE], api |-> FALSE,
           shortTimeout |-> FALSE, config |-> NoConfig, agents |-> <<>>,
           authCalled |-> FALSE,
           a |-> AuthResult(NoAuth, "none", 0), attached |-> NoAuth, err |-> "none"]

\* What go-driver may fail at: building the connection, building the client.
LibFailures == {"none", "conn", "client"}

\* createArangodClientForDNSName (lines 184-209)
createArangodClientForDNSName(fn, ctx, api, dnsName, shortTimeout, lib, f) ==
    LET config == createArangodHTTPConfigForDNSNames(api, spec, <<dnsName>>, shortTimeout)
        a == createArangodClientAuthentication(ctx, api, spec, store, f)
        base == [NoCall EXCEPT !.fn = fn, !.ctx = ctx, !.api = api,
                               !.shortTimeout = shortTimeout, !.config = config]
    IN IF lib = "conn" THEN [base EXCEPT !.err = "err"]
       ELSE IF a.err # "nil" THEN [base EXCEPT !.authCalled = TRUE, !.a = a, !.err = "err"]
       ELSE IF lib = "client"
            THEN [base EXCEPT !.authCalled = TRUE, !.a = a, !.err = "err"]
            ELSE [base EXCEPT !.authCalled = TRUE, !.a = a, !.attached = a.auth,
                              !.err = "nil"]

recVars == <<spec, store, pc, idx, pass, ret, loc, op, faults>>

CreateArangodClient ==
    \E ctx \in Context, group \in {"agent", "dbserver", "coordinator"}, id \in 1..MaxAgents,
       lib \in LibFailures, f \in AuthFailures :
        /\ cl' = createArangodClientForDNSName("CreateArangodClient", ctx, TRUE,
                        CreatePodDNSName(group, id), FALSE, lib, f)
        /\ UNCHANGED <<recVars, transports, bkVars>>

CreateArangodDatabaseClient ==
    \E ctx \in Context, shortTimeout \in BOOLEAN, lib \in LibFailures, f \in AuthFailures :
        /\ cl' = createArangodClientForDNSName("CreateArangodDatabaseClient", ctx, TRUE,
                        CreateDatabaseClientServiceDNSName, shortTimeout, lib, f)
        /\ UNCHANGED <<recVars, transports, bkVars>>

\* Faulty variant: the deployment is passed on as the API object.
CreateArangodImageIDClient_PassesDeployment ==
    \E ctx \in Context, role \in {"id"}, id \in 1..MaxAgents,
       lib \in LibFailures, f \in AuthFailures :
        /\ cl' = createArangodClientForDNSName("CreateArangodImageIDClient", ctx, TRUE,
                        CreatePodDNSName(role, id), FALSE, lib, f)
        /\ UNCHANGED <<recVars, transports, bkVars>>

\* The deployment is not passed on: the API object is nil.
CreateArangodImageIDClient ==
    \E ctx \in Context, role \in {"id"}, id \in 1..MaxAgents,
       lib \in LibFailures, f \in AuthFailures :
        /\ cl' = createArangodClientForDNSName("CreateArangodImageIDClient", ctx, FALSE,
                        CreatePodDNSName(role, id), FALSE, lib, f)
        /\ UNCHANGED <<recVars, transports, bkVars>>

\* apiObject.Status.Members.Agents: the member IDs, in the order of the status.
AgentLists ==
    {m \in UNION {[1..n -> 1..MaxAgents] : n \in 0..MaxAgents} :
        \A i \in DOMAIN m, j \in DOMAIN m : i # j => m[i] # m[j]}

\* Faulty variant: the DNS name of the first agent only.
AgencyDNSNames_FirstOnly(agents) ==
    IF Len(agents) = 0 THEN <<>> ELSE <<CreatePodDNSName("agent", agents[1])>>

\* The loop of lines 140-144: one DNS name per agent, appended in order.
AgencyDNSNames(agents) ==
    [i \in 1..Len(agents) |-> CreatePodDNSName("agent", agents[i])]

\* What go-driver may fail at for the agency: as above, and SetAuthentication.
AgencyLibFailures == LibFailures \cup {"setauth"}

CreateArangodAgencyClient ==
    \E ctx \in Context, agents \in AgentLists, lib \in AgencyLibFailures, f \in AuthFailures :
        LET dnsNames == AgencyDNSNames(agents)
            shortTimeout == FALSE
            config == createArangodHTTPConfigForDNSNames(TRUE, spec, dnsNames, shortTimeout)
            a == createArangodClientAuthentication(ctx, TRUE, spec, store, f)
            base == [NoCall EXCEPT !.fn = "CreateArangodAgencyClient", !.ctx = ctx,
                                   !.api = TRUE, !.shortTimeout = shortTimeout,
                                   !.config = config, !.agents = agents]
        IN /\ cl' = IF lib = "conn" THEN [base EXCEPT !.err = "err"]
                    ELSE IF a.err # "nil"
                         THEN [base EXCEPT !.authCalled = TRUE, !.a = a, !.err = "err"]
                    ELSE IF a.auth # NoAuth /\ lib = "setauth"
                         THEN [base EXCEPT !.authCalled = TRUE, !.a = a, !.err = "err"]
                    ELSE IF lib = "client"
                         THEN [base EXCEPT !.authCalled = TRUE, !.a = a,
                                           !.attached = a.auth, !.err = "err"]
                         ELSE [base EXCEPT !.authCalled = TRUE, !.a = a,
                                           !.attached = a.auth, !.err = "nil"]
           /\ UNCHANGED <<recVars, transports, bkVars>>

(***************************************************************************)
(* The backup state machine: the handler of the DownloadError state and    *)
(* the loop that calls it on the stored status.  Time is in seconds.       *)
(***************************************************************************)
downloadDelay == 60    \* time.Minute
MaxTime == 125         \* the clock stops here

ArangoBackupStatePending       == "Pending"
ArangoBackupStateDownloadError == "DownloadError"

Status(state, time, message) == [State |-> state, Time |-> time, Message |-> message]

NoStatus == Status("", 0, "")
NoHCall  == [called |-> FALSE, given |-> NoStatus, at |-> 0, returned |-> NoStatus,
             wrote |-> FALSE]

\* updateStatusState(state, message) applied to a status at time t: the new
\* state and message, the transition time set to the time of the update.
updateStatusState(status, state, message, t) ==
    [status EXCEPT !.State = state, !.Message = message, !.Time = t]

\* wrapUpdateStatus(backup, updates...): a copy of the backup's status with
\* the updates applied; with no update, the status as it is.
wrapUpdateStatus(status) == status

\* Faulty variant: the cool-down is over at the delay, not after it.
stateDownloadErrorHandler_NotBefore(status, t) ==
    IF status.Time + downloadDelay <= t
    THEN wrapUpdateStatus(updateStatusState(status, ArangoBackupStatePending, "", t))
    ELSE wrapUpdateStatus(status)

\* Faulty variant: a check during the cool-down restarts the cool-down.
stateDownloadErrorHandler_RestartsCoolDown(status, t) ==
    IF status.Time + downloadDelay < t
    THEN wrapUpdateStatus(updateStatusState(status, ArangoBackupStatePending, "", t))
    ELSE wrapUpdateStatus(updateStatusState(status, status.State, status.Message, t))

\* status: backup.Status; t: what time.Now() returns.
stateDownloadErrorHandler(status, t) ==
    IF status.Time + downloadDelay < t
    THEN wrapUpdateStatus(updateStatusState(status, ArangoBackupStatePending, "", t))
    ELSE wrapUpdateStatus(status)

\* The controlling loop visits the backup: it calls the handler of the stored
\* state and persists the status it returns when that differs from the
\* stored one.
HandleDownloadError ==
    /\ backup.State = ArangoBackupStateDownloadError
    /\ LET r == stateDownloadErrorHandler(backup, now) IN
        /\ hcall' = [called |-> TRUE, given |-> backup, at |-> now, returned |-> r,
                     wrote |-> r # backup]
        /\ backup' = IF r # backup THEN r ELSE backup
    /\ UNCHANGED <<recVars, cl, transports, now>>

\* Time passes.
Tick ==
    /\ now < MaxTime
    /\ now' = now + 1
    /\ UNCHANGED <<recVars, cl, transports, backup, hcall>>

\* A pending backup is tried again and its download fails again (the handlers
\* of the other states): it is back in DownloadError, as of now.  The clock
\* leaves room for the cool-down that follows.
DownloadFails ==
    /\ backup.State = ArangoBackupStatePending
    /\ now + downloadDelay < MaxTime
    /\ backup' = Status(ArangoBackupStateDownloadError, now, "download failed")
    /\ UNCHANGED <<recVars, cl, transports, now, hcall>>

(***************************************************************************)
(* Initial states: any spec; a store holding what the user or an earlier   *)
(* version may have left there.                                            *)
(***************************************************************************)
Toggles == [auth : BOOLEAN, tls : BOOLEAN, enc : BOOLEAN, metrics : BOOLEAN, sync : BOOLEAN]

\* Token 1 is a primary token the user supplied, token 2 some other token.
DriftedJSON ==
    [iss |-> "arangodb", server_id |-> "exporter",
     allowed_paths |-> <<"/_admin/statistics", "/_admin/statistics-description">>]

JWTSecrets ==
    { {},
      {Secret(JWTSecretName, FALSE, {Field(SecretKeyToken, HexToken(1))})},
      {Secret(JWTSecretName, FALSE, {Field("note", KeyBytes(0))})} }

ExporterSecrets ==
    { {},
      {Secret(ExporterTokenName, FALSE, {Field("note", KeyBytes(0))})},
      {Secret(ExporterTokenName, TRUE,
              {Field(SecretKeyToken, SignedJWT(2, EncodeClaims(exporterTokenClaims)))})},
      {Secret(ExporterTokenName, TRUE,
              {Field(SecretKeyToken, SignedJWT(1, DriftedJSON))})},
      {CreateJWTSecret(ExporterTokenName, 1, exporterTokenClaims, TRUE)} }

KeyfileSecrets ==
    { {},
      {Secret(KeyfileSecretName, FALSE, {})},
      {Secret(KeyfileSecretName, FALSE, {Field("note", KeyBytes(0))})},
      {Secret(KeyfileSecretName, FALSE, {Field(SecretEncryptionKey, KeyBytes(7))})} }

\* Leftover and malformed secrets concern the primary token, the exporter
\* token and the keyfile, whose flows run before the sync block and apart from
\* it: they are explored for specs without sync; a spec with sync starts from a
\* store holding at most the user's keyfile.
InitStores(s) ==
    IF s.sync
    THEN (IF s.enc
            THEN {{}, {Secret(KeyfileSecretName, FALSE, {Field(SecretEncryptionKey, KeyBytes(7))})}}
            ELSE {{}})
    ELSE { a \cup b \cup c :
            a \in (IF s.auth THEN JWTSecrets ELSE {{}}),
            b \in (IF s.auth /\ s.metrics THEN ExporterSecrets ELSE {{}}),
            c \in (IF s.enc THEN KeyfileSecrets ELSE {{}}) }

Init ==
    /\ spec \in Toggles
    /\ store \in InitStores(spec)
    /\ pc = [p \in Procs |-> "idle"]
    /\ idx = [p \in Procs |-> 0]
    /\ pass = [p \in Procs |-> 0]
    /\ ret = [p \in Procs |-> "none"]
    /\ loc = [p \in Procs |-> NoLoc]
    /\ op = [p \in Procs |-> NoOp]
    /\ faults = 0
    /\ cl = NoCall
    /\ transports = SharedTransports
    /\ backup = NoStatus
    /\ now = 0
    /\ hcall = NoHCall

Next ==
    \E p \in Procs :
        \/ EnsureSecrets(p)
        \/ ensureTokenSecret_Get(p)
        \/ ensureTokenSecret_Create(p)
        \/ ensureExporterTokenSecretCreateRequired_Get(p)
        \/ ensureExporterTokenSecretCreateRequired_GetTokenSecret(p)
        \/ ensureExporterTokenSecret_Delete(p)
        \/ CreateJWTFromSecret_GetTokenSecret(p)
        \/ CreateJWTFromSecret_Create(p)
        \/ ensureTLSCACertificateSecret_Get(p)
        \/ ensureTLSCACertificateSecret_Create(p)
        \/ ensureEncryptionKeyfolderSecret_Get(p)
        \/ AppendKeyfileToKeyfolder_Get(p)
        \/ AppendKeyfileToKeyfolder_Create(p)
        \/ ensureClientAuthCACertificateSecret_Get(p)
        \/ ensureClientAuthCACertificateSecret_Create(p)

Spec == Init /\ [][Next]_vars

(***************************************************************************)
(* Properties of the credential reconciler                                 *)
(***************************************************************************)
\* The primary token secret can be read: it is there and has the token field.
TokenReadable == GetTokenSecretResult(store, JWTSecretName, FALSE) = "ok"

Other(p) == IF p = "r1" THEN "r2" ELSE "r1"
Last(s) == s[Len(s)]
Writes(calls) == {i \in 1..Len(calls) : calls[i].op \in {"create", "delete"}}
Returned(p) == op[p].out \in {"nil", "err"}
TokenNames == {JWTSecretName, SyncJWTSecretName, SyncMonitoringName}

\* Two ensureTokenSecret calls on name that both read "not found" and both
\* had their create answered by the store.
BothNotFound(name) ==
    \A p \in Procs :
        /\ op[p].fn = "ensureTokenSecret" /\ op[p].name = name
        /\ Returned(p)
        /\ Len(op[p].calls) = 2
        /\ op[p].calls[1] = Call("get", name, "notfound")
        /\ op[p].calls[2].op = "create" /\ op[p].calls[2].res # "error"

\* C1: when two concurrent ensureTokenSecret calls for the same name both read
\* "not found", exactly one create succeeds, the other gets AlreadyExists, both
\* calls return nil, and the store holds exactly one secret of that name: the
\* one the winner created, with the winner's token.
C1_RaceTolerance ==
    \A name \in TokenNames :
        BothNotFound(name) =>
            /\ {op[p].calls[2].res : p \in Procs} = {"ok", "exists"}
            /\ \A p \in Procs : op[p].out = "nil" /\ ret[p] # "err"
            /\ Cardinality(Named(store, name)) = 1
            /\ \E w \in Procs :
                /\ op[w].calls[2].res = "ok"
                /\ TheSecret(store, name) =
                     [CreateTokenSecret(name, Fresh(w), TRUE) EXCEPT !.uid = Fresh(w)]

C1_Witness ==
    /\ BothNotFound(JWTSecretName)
    /\ op["r2"].calls[2].res = "ok"
    /\ op["r1"].calls[2].res = "exists"

\* A step of reconciler p that issues a create or a delete on the store.
IssuesWrite(p) ==
    /\ op'[p] # op[p]
    /\ Len(op'[p].calls) > 0
    /\ Last(op'[p].calls).op \in {"create", "delete"}

\* C2: in a second EnsureSecrets pass of a reconciler, with no other writer
\* and no store failure, no step issues a create or a delete and the store
\* stays as the first pass left it.
C2_SecondPassIsNoOp ==
    [][\A p \in Procs :
          (/\ pass[p] = 2 /\ ret[p] = "running"
           /\ pass[Other(p)] = 0
           /\ faults' = 0)
          => (store' = store /\ ~IssuesWrite(p))]_vars

\* The validator of reconciler p has returned.
Validated(p) == loc[p].err \in {"nil", "err"} /\ op[p].fn = "ensureExporterTokenSecret"

\* C3: for an exporter token signed with the current primary key, the validator
\* returns (recreate = false, exists = true, nil) when the stored claims are the
\* desired ones, as the create flow writes them, and (recreate = true, exists =
\* true) when they differ.
C3_ClaimsDrift ==
    \A p \in Procs :
        (/\ Validated(p)
         /\ loc[p].get = "ok" /\ loc[p].hasToken /\ loc[p].key = "ok"
         /\ ParseOK(loc[p].data, loc[p].secret))
        => /\ loc[p].exists /\ loc[p].err = "nil"
           /\ loc[p].recreate <=> (loc[p].data.claims # EncodeClaims(exporterTokenClaims))

\* C4: the validator returns (true, false, nil) for a missing token secret and
\* (true, true, nil) for a secret without token field and for a token that does
\* not parse or verify with the current key; exists is true exactly when the
\* token secret was found.
C4_RecreateBranches ==
    \A p \in Procs :
        Validated(p) =>
            /\ loc[p].get = "notfound"
                 => loc[p].recreate /\ ~loc[p].exists /\ loc[p].err = "nil"
            /\ (loc[p].get = "ok" /\ ~loc[p].hasToken)
                 => loc[p].recreate /\ loc[p].exists /\ loc[p].err = "nil"
            /\ (loc[p].get = "ok" /\ loc[p].hasToken /\ loc[p].key = "ok"
                /\ ~ParseOK(loc[p].data, loc[p].secret))
                 => loc[p].recreate /\ loc[p].exists /\ loc[p].err = "nil"
            /\ loc[p].exists <=> (loc[p].get = "ok")

C4_Witness ==
    \E p \in Procs :
        /\ Validated(p)
        /\ loc[p].get = "ok" /\ loc[p].hasToken /\ loc[p].key = "ok"
        /\ loc[p].data.fmt = "jwt" /\ loc[p].data.n # loc[p].secret
        /\ loc[p].recreate /\ loc[p].exists

\* The exporter token secret was found with a token field and the read of the
\* signing-key secret failed.
KeyUnreadable(p) ==
    /\ op[p].fn = "ensureExporterTokenSecret"
    /\ loc[p].get = "ok" /\ loc[p].hasToken
    /\ loc[p].key \in {"error", "notfound", "nofield"}

\* C5: when the exporter token secret has a token field and the signing-key
\* secret cannot be read, ensureExporterTokenSecret returns an error, having
\* issued neither a delete nor a create; with no other reconciler about, the
\* exporter token secret is still there with the data that was read.
C5_UndecidableIsFatal ==
    \A p \in Procs :
        KeyUnreadable(p) =>
            /\ op[p].out = "err" /\ ret[p] = "err" /\ pc[p] = "idle"
            /\ Writes(op[p].calls) = {}
            /\ pass[Other(p)] = 0 =>
                 /\ Has(store, ExporterTokenName)
                 /\ Lookup(TheSecret(store, ExporterTokenName).data, SecretKeyToken) = loc[p].data

C5_Witness ==
    \E p \in Procs : KeyUnreadable(p) /\ loc[p].key = "nofield" /\ ret[p] = "err"

ExporterOp(p) == op[p].fn = "ensureExporterTokenSecret"
Deletes(calls) == {i \in 1..Len(calls) : calls[i].op = "delete"}
Creates(calls) == {i \in 1..Len(calls) : calls[i].op = "create"}

\* C6: in ensureExporterTokenSecret, a create for a secret that existed at
\* validation comes after the delete of the old one; after a delete answered
\* NotFound the create flow runs; after any other failed delete the error is
\* returned and no create is issued; and no delete is issued when the secret
\* did not exist at validation.
C6_RecreationOrdering ==
    \A p \in Procs :
        ExporterOp(p) =>
            LET calls == op[p].calls IN
            /\ loc[p].exists =>
                 \A j \in Creates(calls) : \E i \in Deletes(calls) : i < j
            /\ \A i \in Deletes(calls) :
                 /\ calls[i].res \in {"ok", "notfound"} =>
                      IF i = Len(calls)
                         THEN pc[p] = "CreateJWTFromSecret" /\ op[p].out = "running"
                         ELSE calls[i + 1] = Call("get", JWTSecretName, calls[i + 1].res)
                 /\ calls[i].res = "error" =>
                      /\ i = Len(calls) /\ Creates(calls) = {}
                      /\ op[p].out = "err" /\ ret[p] = "err" /\ pc[p] = "idle"
            /\ (Validated(p) /\ ~loc[p].exists) => Deletes(calls) = {}

\* The delete was answered NotFound (another reconciler had deleted the
\* secret) and the create went through.
C6_Witness ==
    \E p \in Procs :
        /\ ExporterOp(p) /\ loc[p].exists
        /\ \E i \in Deletes(op[p].calls) : op[p].calls[i].res = "notfound"
        /\ \E j \in Creates(op[p].calls) : op[p].calls[j].res = "ok"

KeyfolderOp(p) == op[p].fn = "ensureEncryptionKeyfolderSecret"

\* The keyfile secret is missing, has no data or lacks the encryption-key field.
\* (No operation writes the keyfile secret, so the store shows what was read.)
KeyfileUnusable ==
    \/ ~Has(store, KeyfileSecretName)
    \/ TheSecret(store, KeyfileSecretName).data = {}
    \/ ~HasField(TheSecret(store, KeyfileSecretName), SecretEncryptionKey)

\* C7: with the keyfile secret missing, empty or without the encryption-key
\* field, ensureEncryptionKeyfolderSecret returns an error after its one read
\* and nothing is created; and a keyfolder secret a pass created holds the key
\* bytes of the keyfile secret.
C7_KeyfolderNeverInvents ==
    /\ \A p \in Procs :
         (KeyfolderOp(p) /\ KeyfileUnusable) =>
            /\ op[p].out = "err" /\ ret[p] = "err"
            /\ Len(op[p].calls) = 1 /\ Writes(op[p].calls) = {}
            /\ ~Has(store, KeyfolderSecretName)
    /\ \A s \in Named(store, KeyfolderSecretName) :
         s.uid # 0 =>
            /\ ~KeyfileUnusable
            /\ s.data = {Field(SecretEncryptionKey,
                               FieldOf(TheSecret(store, KeyfileSecretName), SecretEncryptionKey))}

C7_Witness ==
    \E p \in Procs :
        /\ KeyfolderOp(p) /\ op[p].out = "err"
        /\ Has(store, KeyfileSecretName) /\ TheSecret(store, KeyfileSecretName).data = {}

Expected(s) ==
    (IF s.auth THEN {JWTSecretName} ELSE {})
    \cup (IF s.auth /\ s.metrics THEN {ExporterTokenName} ELSE {})
    \cup (IF s.tls THEN {TLSCASecretName} ELSE {})
    \cup (IF s.enc THEN {KeyfolderSecretName} ELSE {})
    \cup (IF s.sync THEN {SyncJWTSecretName, SyncMonitoringName,
                          SyncTLSCASecretName, ClientCASecretName} ELSE {})

\* Reconciler p has finished its first pass successfully, alone, and the
\* store holds no secret older than the pass other than the keyfile.
FirstPassAlone(p) ==
    /\ pass[p] = 1 /\ pass[Other(p)] = 0
    /\ pc[p] = "idle" /\ ret[p] = "ok"
    /\ \A s \in store : s.uid = 0 => s.name = KeyfileSecretName

\* C9: a successful pass from an empty store (but for the user's keyfile)
\* creates exactly the secrets the toggles ask for, one of each name: the
\* primary token alone for auth only, that and the exporter token for auth and
\* metrics.
C9_SecretsFollowToggles ==
    \A p \in Procs :
        FirstPassAlone(p) =>
            LET made == {s \in store : s.uid # 0} IN
            /\ {s.name : s \in made} = Expected(spec)
            /\ Cardinality(made) = Cardinality(Expected(spec))
            /\ (spec.auth /\ ~spec.tls /\ ~spec.enc /\ ~spec.sync) =>
                 IF spec.metrics
                    THEN {s.name : s \in store} = {JWTSecretName, ExporterTokenName}
                    ELSE {s.name : s \in store} = {JWTSecretName}

C9_Witness ==
    /\ FirstPassAlone("r1")
    /\ spec = [auth |-> TRUE, tls |-> TRUE, enc |-> TRUE, metrics |-> TRUE, sync |-> TRUE]
    /\ Cardinality(store) = 9

\* The secrets an ensure operation created: the store gave them a uid.
Created(st) == {s \in st : s.uid # 0}

\* C14: every secret in the store that an ensure operation created (token,
\* exporter token, CA, keyfolder) carries the owner reference of the
\* deployment.
C14_OwnerReference ==
    \A s \in Created(store) : s.owner

\* A pass replaced an exporter token secret that had no owner reference and
\* created the keyfolder next to the user's keyfile, which has none.
C14_Witness ==
    /\ \E s \in Created(store) : s.name = ExporterTokenName /\ s.owner
    /\ \E s \in Created(store) : s.name = KeyfolderSecretName /\ s.owner
    /\ \E s \in store : s.name = KeyfileSecretName /\ ~s.owner
    /\ \E p \in Procs : ExporterOp(p) \/ KeyfolderOp(p)

\* The secrets that are created once and kept: tokens and CA certificates.
KeptNames == {JWTSecretName, SyncJWTSecretName, SyncMonitoringName,
              TLSCASecretName, SyncTLSCASecretName, ClientCASecretName}

\* C15: no step of any reconciler changes or removes a primary token, sync
\* token, sync monitoring token, TLS CA or client-auth CA secret that is in
\* the store, and the only secret a step removes from the store is the
\* exporter token secret.
C15_NeverRotated ==
    [][/\ \A name \in KeptNames :
            Has(store, name) => Named(store', name) = Named(store, name)
       /\ \A s \in store \ store' : s.name = ExporterTokenName]_vars

\* Both passes are over, an exporter token secret was deleted on the way and
\* the primary token is the one the user supplied before the first pass.
C15_Witness ==
    /\ TotalPasses = MaxPasses /\ \A p \in Procs : pc[p] = "idle"
    /\ \E p \in Procs :
         /\ ExporterOp(p)
         /\ \E i \in Deletes(op[p].calls) : op[p].calls[i].res = "ok"
    /\ Has(store, JWTSecretName) /\ TheSecret(store, JWTSecretName).uid = 0

\* The read-then-create operations of tokens and CA certificates.
TokenOrCAOp(p) ==
    op[p].fn \in {"ensureTokenSecret", "ensureTLSCACertificateSecret",
                  "ensureClientAuthCACertificateSecret"}

\* A secret carries the data fields of its credential kind: a token secret
\* the token field with a hex token, a CA secret certificate and key.
WellFormed(s) ==
    IF s.name \in TokenNames
    THEN HasField(s, SecretKeyToken) /\ FieldOf(s, SecretKeyToken).fmt = "hex"
    ELSE /\ HasField(s, SecretCACertificate) /\ FieldOf(s, SecretCACertificate).fmt = "pem"
         /\ HasField(s, SecretCAKey) /\ FieldOf(s, SecretCAKey).fmt = "pem"

\* C16 (as stated): whenever ensureTokenSecret or a CA ensure operation has
\* returned nil, the named secret is in the store and carries the data
\* fields of its kind, whatever was in the store before the call.
C16_ExistsAndValid ==
    \A p \in Procs :
        (TokenOrCAOp(p) /\ op[p].out = "nil") =>
            /\ Has(store, op[p].name)
            /\ WellFormed(TheSecret(store, op[p].name))

\* C16 (amended): whenever ensureTokenSecret or a CA ensure operation has
\* returned nil, one secret of that name is in the store; it carries the data
\* fields of its kind when an ensure operation created it, and is the secret
\* that was found, with the data it had, otherwise.
C16_ExistsValidIfCreated ==
    \A p \in Procs :
        (TokenOrCAOp(p) /\ op[p].out = "nil") =>
            /\ Cardinality(Named(store, op[p].name)) = 1
            /\ TheSecret(store, op[p].name) \in Created(store)
                 => WellFormed(TheSecret(store, op[p].name))
            /\ TheSecret(store, op[p].name) \notin Created(store)
                 => op[p].calls = <<Call("get", op[p].name, "ok")>>

\* ensureTokenSecret returned nil for a primary token secret that was there
\* before the pass and has no token field.
C16_Witness ==
    \E p \in Procs :
        /\ op[p].fn = "ensureTokenSecret" /\ op[p].name = JWTSecretName
        /\ op[p].out = "nil"
        /\ TheSecret(store, JWTSecretName).uid = 0
        /\ ~HasField(TheSecret(store, JWTSecretName), SecretKeyToken)

\* Reconciler p is the only one that ever ran and its pass returned an error.
FailedAlone(p) == pass[Other(p)] = 0 /\ pc[p] = "idle" /\ ret[p] = "err"

\* C17: when an EnsureSecrets pass (of a reconciler running alone) has
\* returned an error, the secrets of the kinds it ensured before the failing
\* operation are in the store, and so is every secret the failing operation
\* had read as present: the exporter token secret that was being recreated is
\* not missing.
C17_NeverPartiallySecured ==
    \A p \in Procs :
        FailedAlone(p) =>
            /\ \A i \in 1..(idx[p] - 1) : Has(store, Steps[i].name)
            /\ \A i \in 1..Len(op[p].calls) :
                 (op[p].calls[i].op = "get" /\ op[p].calls[i].res = "ok")
                    => Has(store, op[p].calls[i].name)

\* The operations that start with a read of the secret they ensure, and the
\* step each of them goes to for the create.
ReadFirstOp(p) == TokenOrCAOp(p) \/ ExporterOp(p)

CreateStep(fn) ==
    CASE fn = "ensureTokenSecret" -> "CreateTokenSecret"
      [] fn = "ensureTLSCACertificateSecret" -> "createTLSCACertificate"
      [] fn = "ensureClientAuthCACertificateSecret" -> "createClientAuthCACertificate"
      [] OTHER -> "CreateJWTFromSecret"

\* C18: when the first read of a token, exporter token or CA operation fails
\* with an error other than NotFound, the operation returns an error after
\* that one call, with no create and no delete; when it is answered NotFound,
\* the operation does not return an error for it but goes to the create: the
\* next call is the create (for the exporter token, the create flow, which
\* starts with its read of the signing key), never a delete.
C18_ReadFailuresAreFatal ==
    \A p \in Procs :
        (ReadFirstOp(p) /\ Len(op[p].calls) > 0) =>
            LET calls == op[p].calls IN
            /\ calls[1].op = "get" /\ calls[1].name = op[p].name
            /\ calls[1].res = "error" =>
                 /\ Len(calls) = 1 /\ Writes(calls) = {}
                 /\ op[p].out = "err" /\ ret[p] = "err" /\ pc[p] = "idle"
            /\ calls[1].res = "notfound" =>
                 /\ Deletes(calls) = {}
                 /\ Len(calls) = 1 =>
                      op[p].out = "running" /\ pc[p] = CreateStep(op[p].fn)
                 /\ Len(calls) > 1 =>
                      IF ExporterOp(p)
                      THEN /\ calls[2].op = "get" /\ calls[2].name = JWTSecretName
                           /\ Len(calls) > 2 => calls[3].op = "create"
                      ELSE calls[2].op = "create" /\ calls[2].name = op[p].name

\* The read of the exporter token secret failed: one call, an error, no write.
C18_Witness ==
    \E p \in Procs :
        /\ ExporterOp(p)
        /\ op[p].calls = <<Call("get", ExporterTokenName, "error")>>
        /\ op[p].out = "err" /\ ret[p] = "err"
        /\ Has(store, ExporterTokenName)

\* The credential kinds in the order EnsureSecrets takes them.
KindOrder ==
    <<JWTSecretName, ExporterTokenName, TLSCASecretName, KeyfolderSecretName,
      SyncJWTSecretName, SyncMonitoringName, SyncTLSCASecretName, ClientCASecretName>>

KindPos(name) == CHOOSE i \in 1..Len(KindOrder) : KindOrder[i] = name

\* The secrets an ensure operation for name may call the store about: the
\* secret itself and the one it is derived from.
Touches(name) ==
    CASE name = ExporterTokenName -> {ExporterTokenName, JWTSecretName}
      [] name = KeyfolderSecretName -> {KeyfolderSecretName, KeyfileSecretName}
      [] OTHER -> {name}

\* Reconciler p makes a store call in this step.
Calls(p) == op'[p] # op[p] /\ Len(op'[p].calls) > 0

\* C19: the ensure operations of a pass are those of the applicable kinds in
\* the order primary token, exporter token, TLS CA, keyfolder, sync token,
\* sync monitoring token, sync TLS CA, client-auth CA, each entered once; a
\* store call of a pass belongs to the operation the pass is at; a store call
\* that failed is the last call of its pass: the pass returns the error
\* at once and the reconciler calls the store no more until its next pass.
C19_FailFast ==
    /\ [](\A i \in 1..Len(Steps), j \in 1..Len(Steps) :
            i < j => KindPos(Steps[i].name) < KindPos(Steps[j].name))
    /\ [](\A p \in Procs :
            \A i \in 1..Len(op[p].calls) :
                op[p].calls[i].res = "error" =>
                    /\ i = Len(op[p].calls)
                    /\ op[p].out = "err" /\ ret[p] = "err" /\ pc[p] = "idle")
    /\ [](\A p \in Procs :
            ret[p] = "err" =>
                /\ pc[p] = "idle" /\ op[p].out = "err"
                /\ op[p].name = Steps[idx[p]].name)
    /\ [][\A p \in Procs :
            /\ (pass'[p] = pass[p]) => idx'[p] \in {idx[p], idx[p] + 1}
            /\ Calls(p) =>
                 /\ ret[p] = "running" /\ pass'[p] = pass[p]
                 /\ op'[p].name = Steps[idx[p]].name
                 /\ Last(op'[p].calls).name \in Touches(Steps[idx[p]].name)]_vars

\* With every kind applicable, the pass of a lone reconciler failed at the
\* TLS CA: the two kinds before it are in the store, none of the later ones.
C19_Witness ==
    \E p \in Procs :
        /\ FailedAlone(p) /\ pass[p] = 1
        /\ Len(Steps) = Len(KindOrder) /\ idx[p] = 3
        /\ op[p].calls = <<Call("get", TLSCASecretName, "error")>>
        /\ Has(store, JWTSecretName) /\ Has(store, ExporterTokenName)
        /\ \A i \in 3..Len(KindOrder) : ~Has(store, KindOrder[i])

\* Reconciler p enters the exporter-token operation in this step.
EntersExporterOp(p) ==
    /\ pc'[p] = "ensureExporterTokenSecret"
    /\ pc[p] # "ensureExporterTokenSecret"

\* C20: a pass enters the exporter-token operation only in the step in which
\* its ensureTokenSecret for the primary token returns nil; the exporter
\* operation calls the store about the exporter token and the primary token
\* only, and about the primary token only to read it; the key it validates
\* with and the key of every exporter token it created is the token of the
\* primary token secret; and an operation on the primary token calls the
\* store about the primary token only.
C20_SigningDependency ==
    /\ [][\A p \in Procs :
            EntersExporterOp(p) =>
                /\ pass'[p] = pass[p]
                /\ op'[p].fn = "ensureTokenSecret" /\ op'[p].name = JWTSecretName
                /\ op'[p].out = "nil"
                /\ Has(store', JWTSecretName)]_vars
    /\ [](\A p \in Procs : \A i \in 1..Len(op[p].calls) :
            LET c == op[p].calls[i] IN
            /\ ExporterOp(p) =>
                 /\ c.name \in {ExporterTokenName, JWTSecretName}
                 /\ c.name = JWTSecretName => c.op = "get"
            /\ op[p].name = JWTSecretName => c.name = JWTSecretName)
    /\ [](\A p \in Procs :
            (ExporterOp(p) /\ loc[p].secret # 0) =>
                /\ TokenReadable
                /\ loc[p].secret = GetTokenSecretValue(store, JWTSecretName))
    /\ [](\A s \in Created(store) :
            s.name = ExporterTokenName =>
                /\ TokenReadable
                /\ FieldOf(s, SecretKeyToken) =
                     SignedJWT(GetTokenSecretValue(store, JWTSecretName),
                               EncodeClaims(exporterTokenClaims)))

\* A pass created the primary token and then the exporter token, signed
\* with it.
C20_Witness ==
    \E p \in Procs :
        /\ ExporterOp(p) /\ op[p].out = "nil"
        /\ TokenReadable /\ TheSecret(store, JWTSecretName).uid = Fresh(p)
        /\ \E s \in Created(store) :
             /\ s.name = ExporterTokenName /\ s.uid = Fresh(p)
             /\ FieldOf(s, SecretKeyToken).n = Fresh(p)

\* Both reconcilers ran ensureExporterTokenSecret in their first pass and both
\* calls have returned, with no store failure so far and with the primary
\* token readable (no step changes it).
BothRecreated ==
    /\ faults = 0 /\ TokenReadable
    /\ \A p \in Procs : pass[p] = 1 /\ ExporterOp(p) /\ Returned(p)

\* C21: when both reconcilers have run ensureExporterTokenSecret on the same
\* exporter token secret (missing, malformed, drifted or valid), in any
\* interleaving of their reads, deletes and creates and without store
\* failure, both calls returned nil and the store holds one exporter token
\* secret: one that the create flow wrote, with the desired claims, signed
\* with the primary token.
C21_RecreationConverges ==
    BothRecreated =>
        /\ \A p \in Procs : op[p].out = "nil"
        /\ Cardinality(Named(store, ExporterTokenName)) = 1
        /\ LET s == TheSecret(store, ExporterTokenName) IN
            /\ s \in Created(store)
            /\ s.data = {Field(SecretKeyToken,
                                SignedJWT(GetTokenSecretValue(store, JWTSecretName),
                                          EncodeClaims(exporterTokenClaims)))}

\* Both reconcilers read the drifted token; the first replaced it, the second
\* then deleted the replacement and created its own.
C21_Witness ==
    /\ BothRecreated
    /\ \A p \in Procs :
         /\ loc[p].data = SignedJWT(1, DriftedJSON)
         /\ \E i \in Deletes(op[p].calls) : op[p].calls[i].res = "ok"
         /\ \E j \in Creates(op[p].calls) : op[p].calls[j].res = "ok"
    /\ TheSecret(store, ExporterTokenName).uid = Fresh("r2")

(***************************************************************************)
(* The client factory on its own: any spec without sync, metrics and       *)
(* encryption (the factory reads the auth and TLS toggles only), a store   *)
(* with or without a usable primary token secret.                          *)
(***************************************************************************)
InitClient ==
    /\ spec \in {s \in Toggles : ~s.enc /\ ~s.metrics /\ ~s.sync}
    /\ store \in JWTSecrets
    /\ pc = [p \in Procs |-> "idle"]
    /\ idx = [p \in Procs |-> 0]
    /\ pass = [p \in Procs |-> 0]
    /\ ret = [p \in Procs |-> "none"]
    /\ loc = [p \in Procs |-> NoLoc]
    /\ op = [p \in Procs |-> NoOp]
    /\ faults = 0
    /\ cl = NoCall
    /\ transports = SharedTransports
    /\ backup = NoStatus
    /\ now = 0
    /\ hcall = NoHCall

NextClient ==
    \/ CreateArangodClient
    \/ CreateArangodDatabaseClient
    \/ CreateArangodAgencyClient
    \/ CreateArangodImageIDClient

SpecClient == InitClient /\ [][NextClient]_vars

\* C10: with an API object whose spec disables authentication,
\* createArangodClientAuthentication returns no credential and reads no
\* secret; it returns an error exactly when the context carries the require
\* marker, and then the constructor that called it fails.
C10_AuthDisabled ==
    (cl.authCalled /\ cl.api /\ ~spec.auth) =>
        /\ cl.a.auth = NoAuth /\ cl.attached = NoAuth
        /\ cl.a.reads = 0
        /\ (cl.a.err # "nil") <=> cl.ctx.require
        /\ cl.ctx.require => cl.err = "err"

C10_Witness ==
    /\ cl.authCalled /\ cl.api /\ ~spec.auth
    /\ cl.ctx.require /\ cl.ctx.skip
    /\ cl.a.err = "required" /\ cl.err = "err"
    /\ Has(store, JWTSecretName)

\* C11: with an API object whose spec enables authentication,
\* createArangodClientAuthentication under the skip marker (with or without the
\* require marker) returns no credential, no error and reads nothing; without
\* the skip marker it reads the primary token secret once, what it returns
\* without error is the bearer credential signed with the stored token, and a
\* failed read is an error that fails the constructor: no client is built
\* without the credential.
C11_AuthEnabled ==
    (cl.authCalled /\ cl.api /\ spec.auth) =>
        IF cl.ctx.skip
        THEN /\ cl.a = AuthResult(NoAuth, "nil", 0)
             /\ cl.attached = NoAuth
        ELSE /\ cl.a.reads = 1
             /\ cl.a.err = "nil" =>
                  /\ TokenReadable
                  /\ cl.a.auth = [type |-> "raw",
                                  key |-> GetTokenSecretValue(store, JWTSecretName),
                                  server_id |-> "kube-arangodb"]
             /\ ~TokenReadable => cl.a.err # "nil"
             /\ cl.a.err # "nil" =>
                  cl.a.auth = NoAuth /\ cl.attached = NoAuth /\ cl.err = "err"
             /\ cl.err = "nil" => cl.attached = cl.a.auth /\ cl.attached # NoAuth

\* The token secret is there without token field: the read fails and so does
\* the constructor, require marker or not.
C11_Witness ==
    /\ cl.authCalled /\ cl.api /\ spec.auth
    /\ ~cl.ctx.skip /\ ~cl.ctx.require
    /\ Has(store, JWTSecretName) /\ ~TokenReadable
    /\ cl.a.err = "secret" /\ cl.a.reads = 1 /\ cl.err = "err"

TLSTransports == {"sharedHTTPSTransport", "sharedHTTPSTransportShortTimeout"}
ShortTimeoutTransports == {"sharedHTTPTransportShortTimeout", "sharedHTTPSTransportShortTimeout"}

\* C12: the transport of every connection config built is one of the four
\* shared transports: a TLS one exactly when the API object is there and its
\* spec is secure, a short-timeout one exactly when shortTimeout was asked for;
\* every endpoint's scheme is https exactly when a TLS transport was chosen;
\* and the shared transports stay as they were built.
C12_TransportSelection ==
    /\ transports = SharedTransports
    /\ cl.fn # "none" =>
         LET t == cl.config.Transport IN
         /\ t \in DOMAIN transports
         /\ t \in TLSTransports <=> (cl.api /\ spec.tls)
         /\ t \in TLSTransports <=> transports[t].TLSClientConfig # "none"
         /\ t \in ShortTimeoutTransports <=> cl.shortTimeout
         /\ t \in ShortTimeoutTransports <=>
              transports[t].IdleConnTimeout < transports["sharedHTTPTransport"].IdleConnTimeout
         /\ \A i \in DOMAIN cl.config.Endpoints :
              cl.config.Endpoints[i].scheme = IF t \in TLSTransports THEN "https" ELSE "http"

C12_Witness ==
    /\ cl.fn = "CreateArangodDatabaseClient"
    /\ spec.tls /\ cl.shortTimeout
    /\ cl.config.Transport = "sharedHTTPSTransportShortTimeout"
    /\ Len(cl.config.Endpoints) = 1 /\ cl.config.Endpoints[1].scheme = "https"

\* C22: the connection config of CreateArangodAgencyClient has one endpoint
\* per agent of the status, in the order of the status, on a normal-timeout
\* transport; its authentication decision is the one of the member and
\* cluster clients (none under the skip marker or without authentication in
\* the spec, where the require marker is an error; else the credential signed
\* with the primary token, read once); and authentication is attached to the
\* connection only when the decision gave a credential, which a client that
\* was built then carries.
C22_AgencyEndpoints ==
    cl.fn = "CreateArangodAgencyClient" =>
        /\ Len(cl.config.Endpoints) = Len(cl.agents)
        /\ \A i \in 1..Len(cl.agents) :
             /\ cl.config.Endpoints[i].host = [role |-> "agent", id |-> cl.agents[i]]
             /\ cl.config.Endpoints[i].port = "8529"
        /\ ~cl.shortTimeout
        /\ cl.config.Transport \in {"sharedHTTPTransport", "sharedHTTPSTransport"}
        /\ cl.authCalled =>
             IF spec.auth /\ ~cl.ctx.skip
             THEN /\ cl.a.reads = 1
                  /\ ~TokenReadable => cl.a.err # "nil"
                  /\ cl.a.err = "nil" =>
                       cl.a.auth = [type |-> "raw",
                                    key |-> GetTokenSecretValue(store, JWTSecretName),
                                    server_id |-> "kube-arangodb"]
             ELSE /\ cl.a.auth = NoAuth /\ cl.a.reads = 0
                  /\ cl.a.err # "nil" <=> (~spec.auth /\ cl.ctx.require)
        /\ cl.attached # NoAuth =>
             cl.authCalled /\ cl.a.err = "nil" /\ cl.attached = cl.a.auth
        /\ cl.err = "nil" => cl.authCalled /\ cl.attached = cl.a.auth

\* Two agents, the second member first in the status: both endpoints, in
\* that order, over TLS, with the credential attached.
C22_Witness ==
    /\ cl.fn = "CreateArangodAgencyClient" /\ cl.err = "nil"
    /\ cl.agents = <<2, 1>>
    /\ spec.tls /\ spec.auth /\ cl.attached # NoAuth
    /\ cl.config.Endpoints =
         <<[scheme |-> "https", host |-> [role |-> "agent", id |-> 2], port |-> "8529"],
           [scheme |-> "https", host |-> [role |-> "agent", id |-> 1], port |-> "8529"]>>

\* C23: CreateArangodImageIDClient, whatever the spec and the store, builds
\* one http endpoint on the normal-timeout plaintext transport, reads no
\* secret and attaches no credential; the authentication step returns the
\* authentication-required error exactly when the context carries the
\* require marker, with or without the skip marker, and the construction
\* then fails.
C23_ImageIDClient ==
    cl.fn = "CreateArangodImageIDClient" =>
        /\ ~cl.api /\ ~cl.shortTimeout
        /\ cl.config.Transport = "sharedHTTPTransport"
        /\ Len(cl.config.Endpoints) = 1 /\ cl.config.Endpoints[1].scheme = "http"
        /\ cl.a.reads = 0 /\ cl.a.auth = NoAuth /\ cl.attached = NoAuth
        /\ cl.authCalled => (cl.a.err = "required" <=> cl.ctx.require)
        /\ cl.authCalled => cl.a.err \in {"required", "nil"}
        /\ cl.ctx.require => cl.err = "err"

\* The spec asks for TLS and authentication and the store holds the token;
\* the context carries both markers.
C23_Witness ==
    /\ cl.fn = "CreateArangodImageIDClient"
    /\ spec.tls /\ spec.auth /\ TokenReadable
    /\ cl.ctx.skip /\ cl.ctx.require
    /\ cl.authCalled /\ cl.a.err = "required" /\ cl.err = "err"
    /\ cl.config.Endpoints[1].scheme = "http"

(***************************************************************************)
(* The backup on its own: a backup in DownloadError since some time, with  *)
(* or without a message, and the clock at that time.                       *)
(***************************************************************************)
InitBackup ==
    /\ spec = [auth |-> FALSE, tls |-> FALSE, enc |-> FALSE, metrics |-> FALSE, sync |-> FALSE]
    /\ store = {}
    /\ pc = [p \in Procs |-> "idle"]
    /\ idx = [p \in Procs |-> 0]
    /\ pass = [p \in Procs |-> 0]
    /\ ret = [p \in Procs |-> "none"]
    /\ loc = [p \in Procs |-> NoLoc]
    /\ op = [p \in Procs |-> NoOp]
    /\ faults = 0
    /\ cl = NoCall
    /\ transports = SharedTransports
    /\ backup \in {Status(ArangoBackupStateDownloadError, t, m) :
                       t \in {0, 7}, m \in {"", "download failed"}}
    /\ now = backup.Time
    /\ hcall = NoHCall

NextBackup ==
    \/ HandleDownloadError
    \/ Tick
    \/ DownloadFails

SpecBackup == InitBackup /\ [][NextBackup]_vars

\* C13: a call of stateDownloadErrorHandler at time now on a DownloadError
\* status with transition time T returns that status unchanged when now is
\* not later than T + 60 s, and a status in Pending with empty message and
\* the transition time moved to now when now is later than T + 60 s; it
\* returns no other state.
C13_CoolDownTransition ==
    (hcall.called /\ hcall.given.State = "DownloadError") =>
        /\ hcall.at <= hcall.given.Time + 60 => hcall.returned = hcall.given
        /\ hcall.at > hcall.given.Time + 60 =>
             /\ hcall.returned.State = "Pending"
             /\ hcall.returned.Message = ""
             /\ hcall.returned.Time = hcall.at /\ hcall.returned.Time > hcall.given.Time
        /\ hcall.returned.State \in {"DownloadError", "Pending"}

\* A call at T + 60 s exactly, on a status with a message: nothing changes.
C13_Witness ==
    /\ hcall.called /\ hcall.given.State = "DownloadError"
    /\ hcall.given.Message # ""
    /\ hcall.at = hcall.given.Time + 60
    /\ hcall.returned = hcall.given /\ backup = hcall.given

(***************************************************************************)
(* The backup under a loop that keeps visiting it and a clock that keeps   *)
(* running (up to the end of the clock).                                   *)
(***************************************************************************)
SpecBackupLive ==
    /\ InitBackup
    /\ [][NextBackup]_vars
    /\ WF_vars(HandleDownloadError)
    /\ WF_vars(Tick)

\* C24: a backup in DownloadError that the loop keeps visiting while time
\* advances gets to Pending; a visit that leaves it in DownloadError returns
\* the stored status, writes nothing and leaves the transition time as it
\* was, so the cool-down runs from the failure: the first visit later than
\* 60 s after it moves the backup to Pending.
C24_RetryWithoutBusyLoop ==
    /\ (backup.State = "DownloadError") ~> (backup.State = "Pending")
    /\ [][(backup.State = "DownloadError" /\ hcall' # hcall) =>
            /\ hcall'.given = backup /\ hcall'.at = now
            /\ IF now > backup.Time + 60
               THEN backup'.State = "Pending" /\ hcall'.wrote
               ELSE /\ hcall'.returned = backup /\ ~hcall'.wrote
                    /\ backup' = backup]_vars
    /\ [][(backup.State = "DownloadError" /\ backup'.State = "DownloadError")
            => backup'.Time = backup.Time]_vars

\* The second retry: the download failed again after the first one, and the
\* backup left DownloadError again 61 s after that failure.
C24_Witness ==
    /\ hcall.called /\ hcall.wrote
    /\ hcall.given.State = "DownloadError" /\ hcall.given.Time > 60
    /\ hcall.at = hcall.given.Time + 61
    /\ backup.State = "Pending" /\ backup.Time = hcall.at

====
